---- MODULE Spec2Model ----
(***************************************************************************)
(* The process lifecycle of tincd (src/src/process.h, the tincd.c part):   *)
(* two tincd invocations for the same net, the supervisor parent and the   *)
(* detached child each of them may fork into, one "tincd -k" invocation,   *)
(* the PID file they share, and the signals they receive.                  *)
(*                                                                         *)
(* A process is either in the main flow (pc names the next call of main /  *)
(* detach / write_pidfile / kill_other) or inside a signal handler (frame  *)
(* names the handler and its argument).  Calls to collaborators whose code *)
(* is elsewhere (close_network_connections, syslog, ...) are recorded in   *)
(* the per-process call log, in call order.                                *)
(*                                                                         *)
(* signal(2) is taken with BSD semantics (glibc): a handler stays          *)
(* installed and its own signal is blocked while it runs.                  *)
(*                                                                         *)
(* The environment: the PID file is absent or stale at the start; at most  *)
(* one of the two invocations detaches (the other runs with -D); signals   *)
(* from outside are raised at a daemon that is in main_loop; SIGALRM and   *)
(* SIGBUS stand for the signals setup_signals leaves with sighuh.          *)
(* SIGSEGV, sent or from a memory fault, is looked at in the runs in which *)
(* one tincd is started alone; memory faults strike a daemon that runs     *)
(* with -D and is in main_loop (in the main flow or in a SIGSEGV handler). *)
(* A handler's own signal stays blocked in the image execvp starts from    *)
(* inside it (execve keeps the signal mask).                               *)
(*                                                                         *)
(* The observer (the top.c part) is a separate program with its own        *)
(* specification, SpecTop: top and update, the control connection to the   *)
(* daemon and the daemon's answers to DUMP_TRAFFIC.  The rates update      *)
(* derives from the counters and the screen redraw paints are left out.    *)
(***************************************************************************)
EXTENDS Integers, Sequences, FiniteSets, TLC

VARIABLES
    pidfile,    \* content of pidfilename: 0 = no file, else the PID in it
    pc,         \* per process: position in the main flow
    status,     \* per process: -1 while it runs, else its exit status (128 = killed by a signal)
    do_detach,  \* per process: the do_detach flag
    ppid,       \* per process: the static ppid ("pid of non-detached part")
    handler,    \* per process: signal -> installed disposition
    pending,    \* per process: signals sent to it and not yet delivered
    frame,      \* per process: the handler it is executing, with its argument
    netup,      \* per process: network connections are set up
    log,        \* per process: calls made by its current image, <<callee, argument>>
    sent,       \* per process: the PIDs it has passed to kill(.., SIGTERM)
    pid,        \* per process: the local pid of write_pidfile / kill_other
    fail,       \* per process: the initialization step that failed, or "none"
    locked,     \* per process: write_pidfile returned 0 in it
    reported,   \* per process: the PID printed in "already running", or 0
    nsig,       \* signals sent from outside so far
    sigmask,    \* per process: the signals it has blocked (kept across execvp)
    faulting,   \* per process: it stands at an instruction that faults
    execs,      \* per process: the times execvp has replaced its image
    hpc,        \* per process: position inside sigsegv_handler
    nfault,     \* memory faults so far
    tpc,        \* observer: position in top / update
    tstatus,    \* observer: -1 while it runs, else its exit status
    node_list,  \* observer: the list of nodestats_t, head first
    delay,      \* observer: refresh delay in ms
    running,    \* observer: the running flag
    sortmode,   \* observer: 0..6
    cumulative, \* observer: the cumulative flag
    rx,         \* control connection: lines the daemon has written, not yet read
    closed,     \* control connection: the daemon has closed it
    sends,      \* control connection: DUMP_TRAFFIC requests the observer has sent
    req,        \* control connection: requests the daemon has not finished answering
    got,        \* observer: sentinel lines read so far
    seen        \* observer: the node names read since the last request

\* The daemons' state, the part of it that SEGV recovery adds, and the observer's.
daemon == <<pidfile, pc, status, do_detach, ppid, handler, pending, frame,
            netup, log, sent, pid, fail, locked, reported, nsig>>
crash == <<sigmask, faulting, execs, hpc, nfault>>
observer == <<tpc, tstatus, node_list, delay, running, sortmode, cumulative,
              rx, closed, sends, req, got, seen>>
vars == <<daemon, crash, observer>>

\* Signals sent to the daemons from outside, at most: those a user or the
\* system raises, and the run of tincd -k.
MaxSignals == 1
\* Memory faults (genuine SIGSEGV), at most.
MaxFaults == 2

Invocations == {1, 2}
Child(i) == i + Cardinality(Invocations)
Children == {Child(i) : i \in Invocations}
Parent(c) == c - Cardinality(Invocations)
Killer == 2 * Cardinality(Invocations) + 1
Procs == Invocations \cup Children \cup {Killer}
\* A PID no process has: what a crashed tincd leaves in the PID file.
StalePid == Killer + 1

Bound == {"TERM", "QUIT", "SEGV", "HUP", "PIPE", "INT", "USR1", "USR2", "CHLD"}
Unbound == {"ALRM", "BUS"}
Signals == Bound \cup Unbound
\* kill(2) can send any of them, SIGSEGV included.
ExternalSignals == Signals

NoFrame == [h |-> "none", a |-> "none"]

\* The tincd that are started in a run: one alone, or both.
Started == {{1}, Invocations}
\* p is the only tincd started in this run.
Alone(p) == \A q \in Invocations \ {p} : pc[q] = "unborn"

Alive(q) == q \in Procs /\ pc[q] \notin {"unborn", "exited"}
InMain(p) == Alive(p) /\ frame[p] = NoFrame
Call(f) == <<f, "">>
Logged(p, calls) == [log EXCEPT ![p] = @ \o calls]
Did(p, f) == \E k \in 1..Len(log[p]) : log[p][k][1] = f

\* kill(q, s) as the kernel does it: the signal becomes pending at a live
\* target, and is lost (ESRCH) otherwise.
AddSig(pend, q, s) ==
    IF Alive(q) THEN [pend EXCEPT ![q] = @ \cup {s}] ELSE pend

\* The kernel sends SIGCHLD to the live parent of a process that ends.
ExitNotify(pend, p) ==
    IF p \in Children THEN AddSig(pend, Parent(p), "CHLD") ELSE pend

\* exit(c), or return c from main.
exit(p, c, pend) ==
    /\ pc' = [pc EXCEPT ![p] = "exited"]
    /\ status' = [status EXCEPT ![p] = c]
    /\ frame' = [frame EXCEPT ![p] = NoFrame]
    /\ pending' = ExitNotify(pend, p)

\* pidfile.h, whose code is not part of the sources: modelled from the
\* specification (section 4.1).
check_pid == IF pidfile # 0 /\ Alive(pidfile) THEN pidfile ELSE 0
read_pid == pidfile
\* create-exclusive: the PID written, or 0 when the file exists or cannot be written
write_pid(p, ioOk) == IF pidfile = 0 /\ ioOk THEN p ELSE 0
remove_pid == 0

InitCrash ==
    /\ sigmask = [p \in Procs |-> {}]
    /\ faulting = [p \in Procs |-> FALSE]
    /\ execs = [p \in Procs |-> 0]
    /\ hpc = [p \in Procs |-> "entry"]
    /\ nfault = 0

\* top.c: the statics, and a control connection on which nothing was sent yet.
InitObserver ==
    /\ tpc = "update"
    /\ tstatus = -1
    /\ node_list = <<>>
    /\ delay = 1000
    /\ running = TRUE
    /\ sortmode = 0
    /\ cumulative = FALSE
    /\ rx = <<>>
    /\ closed = FALSE
    /\ sends = 0
    /\ req = 0
    /\ got = 0
    /\ seen = {}

Init ==
    /\ InitCrash
    /\ InitObserver
    /\ pidfile \in {0, StalePid}
    /\ status = [p \in Procs |-> -1]
    /\ do_detach \in [Procs -> BOOLEAN]
    /\ \A p \in Procs \ Invocations : do_detach[p]
    /\ \E p \in Invocations : ~do_detach[p]
    /\ \E started \in Started :
        /\ pc = [p \in Procs |-> IF p \in started THEN "read_config_file"
                                 ELSE IF p = Killer THEN "kill_other"
                                 ELSE "unborn"]
        /\ \A p \in Invocations \ started : ~do_detach[p]
    /\ ppid = [p \in Procs |-> 0]
    /\ handler = [p \in Procs |-> [s \in Signals |-> "SIG_DFL"]]
    /\ pending = [p \in Procs |-> {}]
    /\ frame = [p \in Procs |-> NoFrame]
    /\ netup = [p \in Procs |-> FALSE]
    /\ log = [p \in Procs |-> <<>>]
    /\ sent = [p \in Procs |-> {}]
    /\ pid = [p \in Procs |-> 0]
    /\ fail = [p \in Procs |-> "none"]
    /\ locked = [p \in Procs |-> FALSE]
    /\ reported = [p \in Procs |-> 0]
    /\ nsig = 0

----------------------------------------------------------------------------
\* cleanup_and_exit(c).  kill(ppid, SIGTERM) with ppid = 0 (no detach) signals
\* the caller's own process group, and with ppid = getpid() the caller: the
\* signal is delivered before kill returns unless SIGTERM is blocked, so
\* sigterm_handler runs cleanup_and_exit(0) inside this call.
cleanup_and_exit(p, c) ==
    LET once == <<Call("close_network_connections"), Call("closelog"),
                  <<"kill", "SIGTERM">>>>
        self == ppid[p] \in {0, p}
        now == self /\ frame[p].a # "TERM"
        nested == now /\ handler[p]["TERM"] = "sigterm_handler"
        code == IF ~now THEN c
                ELSE IF handler[p]["TERM"] = "SIG_DFL" THEN 128
                ELSE IF handler[p]["TERM"] = "SIG_IGN" THEN c
                ELSE 0
    IN  /\ netup' = [netup EXCEPT ![p] = FALSE]
        /\ log' = Logged(p, IF nested THEN once \o once ELSE once)
        /\ sent' = [sent EXCEPT ![p] = @ \cup {ppid[p]}]
        /\ exit(p, code,
                IF self
                THEN (IF nested \/ ~now
                      THEN [pending EXCEPT ![p] = @ \cup {"TERM"}]
                      ELSE pending)
                ELSE AddSig(pending, ppid[p], "TERM"))

\* main: if(detach()) exit(0);
main_detach_failed(p, pend) == exit(p, 0, pend)

\* Mutants of write_pidfile: the result of check_pid, or of write_pid, is
\* not looked at.
write_pidfile_unchecked(found) == 0
write_pidfile_unwritten(wrote) == 0

\* write_pidfile's return value, from what check_pid and write_pid returned.
write_pidfile_checked(found) == IF found # 0 THEN 1 ELSE 0
write_pidfile_written(wrote) == IF wrote = 0 THEN 1 ELSE 0

----------------------------------------------------------------------------
\* main: read_config_file(configfilename), return 1 when it fails.
read_config_file(p) ==
    /\ InMain(p) /\ pc[p] = "read_config_file"
    /\ log' = Logged(p, <<Call("read_config_file")>>)
    /\ \E ok \in BOOLEAN :
        /\ IF ok
           THEN /\ pc' = [pc EXCEPT ![p] = "setup_signals"]
                /\ UNCHANGED <<status, frame, pending, fail>>
           ELSE /\ fail' = [fail EXCEPT ![p] = "read_config_file"]
                /\ exit(p, 1, pending)
    /\ UNCHANGED <<pidfile, do_detach, ppid, handler, netup, sent, pid,
                   locked, reported, nsig>>
    /\ UNCHANGED <<crash, observer>>

SignalTable ==
    [s \in Signals |->
        CASE s = "TERM" -> "sigterm_handler"
          [] s = "QUIT" -> "sigquit_handler"
          [] s = "SEGV" -> "sigsegv_handler"
          [] s = "HUP"  -> "sighup_handler"
          [] s = "PIPE" -> "SIG_IGN"
          [] s = "INT"  -> "sigint_handler"
          [] s = "USR1" -> "sigusr1_handler"
          [] s = "USR2" -> "sigusr2_handler"
          [] s = "CHLD" -> "parent_exit"
          [] OTHER      -> "sighuh"]

setup_signals(p) ==
    /\ InMain(p) /\ pc[p] = "setup_signals"
    /\ handler' = [handler EXCEPT ![p] = SignalTable]
    /\ pc' = [pc EXCEPT ![p] = "detach"]
    /\ UNCHANGED <<pidfile, status, do_detach, ppid, pending, frame, netup,
                   log, sent, pid, fail, locked, reported, nsig>>
    /\ UNCHANGED <<crash, observer>>

\* detach, up to the fork: the child is a copy of the parent with nothing
\* pending.
detach_fork(p) ==
    /\ InMain(p) /\ pc[p] = "detach"
    /\ IF do_detach[p]
       THEN \E forked \in BOOLEAN :
            /\ IF forked
               THEN LET c == Child(p) IN
                    /\ pc' = [pc EXCEPT ![p] = "parent_signal", ![c] = "write_pidfile"]
                    /\ ppid' = [ppid EXCEPT ![p] = p, ![c] = p]
                    /\ handler' = [handler EXCEPT ![c] = handler[p]]
                    /\ sigmask' = [sigmask EXCEPT ![c] = sigmask[p]]
                    /\ log' = [log EXCEPT ![c] = log[p]]
                    /\ UNCHANGED <<status, frame, pending, fail>>
               ELSE /\ ppid' = [ppid EXCEPT ![p] = p]
                    /\ log' = Logged(p, <<Call("perror")>>)
                    /\ fail' = [fail EXCEPT ![p] = "fork"]
                    /\ main_detach_failed(p, pending)
                    /\ UNCHANGED <<handler, sigmask>>
       ELSE /\ pc' = [pc EXCEPT ![p] = "write_pidfile"]
            /\ UNCHANGED <<status, frame, pending, fail, ppid, handler, log,
                           sigmask>>
    /\ UNCHANGED <<pidfile, do_detach, netup, sent, pid, locked, reported, nsig>>
    /\ UNCHANGED <<faulting, execs, hpc, nfault, observer>>

\* detach, parent: signal(SIGTERM, parent_exit)
detach_parent_signal(p) ==
    /\ InMain(p) /\ pc[p] = "parent_signal"
    /\ handler' = [handler EXCEPT ![p]["TERM"] = "parent_exit"]
    /\ pc' = [pc EXCEPT ![p] = "parent_sleep"]
    /\ UNCHANGED <<pidfile, status, do_detach, ppid, pending, frame, netup,
                   log, sent, pid, fail, locked, reported, nsig>>
    /\ UNCHANGED <<crash, observer>>

\* detach, parent: sleep(600) returns; exit(1)
detach_parent_sleep(p) ==
    /\ InMain(p) /\ pc[p] = "parent_sleep"
    /\ exit(p, 1, pending)
    /\ UNCHANGED <<pidfile, do_detach, ppid, handler, netup, log, sent, pid,
                   fail, locked, reported, nsig>>
    /\ UNCHANGED <<crash, observer>>

\* write_pidfile: pid = check_pid(pidfilename)
write_pidfile_check(p) ==
    /\ InMain(p) /\ pc[p] = "write_pidfile"
    /\ pid' = [pid EXCEPT ![p] = check_pid]
    /\ IF write_pidfile_checked(check_pid) # 0
       THEN /\ reported' = [reported EXCEPT ![p] = check_pid]
            /\ log' = Logged(p, <<<<"fprintf", "A tincd is already running">>>>)
            /\ fail' = [fail EXCEPT ![p] = "already_running"]
            /\ main_detach_failed(p, pending)
       ELSE /\ pc' = [pc EXCEPT ![p] = "write_pid"]
            /\ UNCHANGED <<status, frame, pending, fail, reported, log>>
    /\ UNCHANGED <<pidfile, do_detach, ppid, handler, netup, sent, locked, nsig>>
    /\ UNCHANGED <<crash, observer>>

\* write_pidfile: write_pid(pidfilename)
write_pidfile_write(p) ==
    /\ InMain(p) /\ pc[p] = "write_pid"
    /\ \E ioOk \in BOOLEAN :
        LET wrote == write_pid(p, ioOk) IN
        /\ pidfile' = IF wrote # 0 THEN wrote ELSE pidfile
        /\ log' = Logged(p, <<Call("write_pid")>>)
        /\ IF write_pidfile_written(wrote) # 0
           THEN /\ fail' = [fail EXCEPT ![p] = "write_pid"]
                /\ main_detach_failed(p, pending)
                /\ UNCHANGED locked
           ELSE /\ locked' = [locked EXCEPT ![p] = TRUE]
                /\ pc' = [pc EXCEPT ![p] = IF do_detach[p] THEN "detach_tty"
                                           ELSE "detach_chdir"]
                /\ UNCHANGED <<status, frame, pending, fail>>
    /\ UNCHANGED <<do_detach, ppid, handler, netup, sent, pid, reported, nsig>>
    /\ UNCHANGED <<crash, observer>>

\* detach: open("/dev/tty") and ioctl(fd, TIOCNOTTY)
detach_tty(p) ==
    /\ InMain(p) /\ pc[p] = "detach_tty"
    /\ \E tty \in {"absent", "released", "ioctl fails"} :
        /\ IF tty = "ioctl fails"
           THEN /\ log' = Logged(p, <<Call("perror")>>)
                /\ fail' = [fail EXCEPT ![p] = "tty"]
                /\ main_detach_failed(p, pending)
           ELSE /\ pc' = [pc EXCEPT ![p] = "detach_setsid"]
                /\ UNCHANGED <<status, frame, pending, fail, log>>
    /\ UNCHANGED <<pidfile, do_detach, ppid, handler, netup, sent, pid,
                   locked, reported, nsig>>
    /\ UNCHANGED <<crash, observer>>

\* Mutant of detach_setsid: the parent is signalled whether or not setsid
\* succeeded.
detach_setsid_signals_anyway(p) ==
    /\ InMain(p) /\ pc[p] = "detach_setsid"
    /\ \E ok \in BOOLEAN :
        /\ sent' = [sent EXCEPT ![p] = @ \cup {ppid[p]}]
        /\ log' = Logged(p, <<Call("setsid"), <<"kill", "SIGTERM">>>>)
        /\ IF ok
           THEN /\ pending' = AddSig(pending, ppid[p], "TERM")
                /\ pc' = [pc EXCEPT ![p] = "detach_chdir"]
                /\ UNCHANGED <<status, frame, fail>>
           ELSE /\ fail' = [fail EXCEPT ![p] = "setsid"]
                /\ main_detach_failed(p, AddSig(pending, ppid[p], "TERM"))
    /\ UNCHANGED <<pidfile, do_detach, ppid, handler, netup, pid, locked,
                   reported, nsig>>
    /\ UNCHANGED <<crash, observer>>

\* detach: setsid(), then kill(ppid, SIGTERM)
detach_setsid(p) ==
    /\ InMain(p) /\ pc[p] = "detach_setsid"
    /\ \E ok \in BOOLEAN :
        /\ IF ok
           THEN /\ log' = Logged(p, <<Call("setsid"), <<"kill", "SIGTERM">>>>)
                /\ sent' = [sent EXCEPT ![p] = @ \cup {ppid[p]}]
                /\ pending' = AddSig(pending, ppid[p], "TERM")
                /\ pc' = [pc EXCEPT ![p] = "detach_chdir"]
                /\ UNCHANGED <<status, frame, fail>>
           ELSE /\ log' = Logged(p, <<Call("setsid")>>)
                /\ fail' = [fail EXCEPT ![p] = "setsid"]
                /\ main_detach_failed(p, pending)
                /\ UNCHANGED sent
    /\ UNCHANGED <<pidfile, do_detach, ppid, handler, netup, pid, locked,
                   reported, nsig>>
    /\ UNCHANGED <<crash, observer>>

\* detach: chdir("/"), openlog, syslog, return 0
detach_chdir(p) ==
    /\ InMain(p) /\ pc[p] = "detach_chdir"
    /\ log' = Logged(p, <<Call("chdir"), Call("openlog")>>)
    /\ pc' = [pc EXCEPT ![p] = "security_init"]
    /\ UNCHANGED <<pidfile, status, do_detach, ppid, handler, pending, frame,
                   netup, sent, pid, fail, locked, reported, nsig>>
    /\ UNCHANGED <<crash, observer>>

\* main: if(security_init()) return 1;
security_init(p) ==
    /\ InMain(p) /\ pc[p] = "security_init"
    /\ log' = Logged(p, <<Call("security_init")>>)
    /\ \E ok \in BOOLEAN :
        /\ IF ok
           THEN /\ pc' = [pc EXCEPT ![p] = "setup_network_connections"]
                /\ UNCHANGED <<status, frame, pending, fail>>
           ELSE /\ fail' = [fail EXCEPT ![p] = "security_init"]
                /\ exit(p, 1, pending)
    /\ UNCHANGED <<pidfile, do_detach, ppid, handler, netup, sent, pid,
                   locked, reported, nsig>>
    /\ UNCHANGED <<crash, observer>>

\* main: if(setup_network_connections()) cleanup_and_exit(1);
setup_network_connections(p) ==
    /\ InMain(p) /\ pc[p] = "setup_network_connections"
    /\ log' = Logged(p, <<Call("setup_network_connections")>>)
    /\ \E ok \in BOOLEAN :
        /\ IF ok
           THEN /\ netup' = [netup EXCEPT ![p] = TRUE]
                /\ pc' = [pc EXCEPT ![p] = "main_loop"]
                /\ UNCHANGED fail
           ELSE /\ fail' = [fail EXCEPT ![p] = "setup_network_connections"]
                /\ pc' = [pc EXCEPT ![p] = "cleanup_and_exit"]
                /\ UNCHANGED netup
    /\ UNCHANGED <<pidfile, status, do_detach, ppid, handler, pending, frame,
                   sent, pid, locked, reported, nsig>>
    /\ UNCHANGED <<crash, observer>>

\* main: main_loop() returns
main_loop(p) ==
    /\ InMain(p) /\ pc[p] = "main_loop"
    /\ log' = Logged(p, <<Call("main_loop")>>)
    /\ pc' = [pc EXCEPT ![p] = "cleanup_and_exit"]
    /\ UNCHANGED <<pidfile, status, do_detach, ppid, handler, pending, frame,
                   netup, sent, pid, fail, locked, reported, nsig>>
    /\ UNCHANGED <<crash, observer>>

\* main: cleanup_and_exit(1), after setup_network_connections failed or
\* main_loop returned
main_cleanup_and_exit(p) ==
    /\ InMain(p) /\ pc[p] = "cleanup_and_exit"
    /\ cleanup_and_exit(p, 1)
    /\ UNCHANGED <<pidfile, do_detach, ppid, handler, pid, fail, locked,
                   reported, nsig>>
    /\ UNCHANGED <<crash, observer>>

----------------------------------------------------------------------------
\* tincd -k.  kill_other: pid = read_pid(pidfilename); return 1 when it is 0
kill_other_read_pid(p) ==
    /\ InMain(p) /\ pc[p] = "kill_other"
    /\ nsig < MaxSignals
    /\ nsig' = nsig + 1
    /\ pid' = [pid EXCEPT ![p] = read_pid]
    /\ IF read_pid = 0
       THEN /\ log' = Logged(p, <<<<"fprintf", "No other tincd is running">>>>)
            /\ exit(p, 1, pending)
       ELSE /\ pc' = [pc EXCEPT ![p] = "kill_other_kill"]
            /\ UNCHANGED <<status, frame, pending, log>>
    /\ UNCHANGED <<pidfile, do_detach, ppid, handler, netup, sent, fail,
                   locked, reported>>
    /\ UNCHANGED <<crash, observer>>

\* kill_other: if(kill(pid, SIGTERM) && errno == ESRCH) fprintf(...)
kill_other_kill(p) ==
    /\ InMain(p) /\ pc[p] = "kill_other_kill"
    /\ sent' = [sent EXCEPT ![p] = @ \cup {pid[p]}]
    /\ pending' = AddSig(pending, pid[p], "TERM")
    /\ log' = Logged(p, IF Alive(pid[p])
                        THEN <<<<"kill", "SIGTERM">>>>
                        ELSE <<<<"kill", "SIGTERM">>,
                               <<"fprintf", "Removing stale lock file.">>>>)
    /\ pc' = [pc EXCEPT ![p] = "kill_other_remove"]
    /\ UNCHANGED <<pidfile, status, do_detach, ppid, handler, frame, netup,
                   pid, fail, locked, reported, nsig>>
    /\ UNCHANGED <<crash, observer>>

\* Mutant of kill_other: the PID file is removed only when the lock was stale.
kill_other_remove_stale_only(p) ==
    /\ InMain(p) /\ pc[p] = "kill_other_remove"
    /\ pidfile' = IF Did(p, "fprintf") THEN remove_pid ELSE pidfile
    /\ log' = Logged(p, <<Call("remove_pid")>>)
    /\ exit(p, 0, pending)
    /\ UNCHANGED <<do_detach, ppid, handler, netup, sent, pid, fail, locked,
                   reported, nsig>>
    /\ UNCHANGED <<crash, observer>>

\* kill_other: remove_pid(pidfilename); return 0;   main: exit(kill_other())
kill_other_remove(p) ==
    /\ InMain(p) /\ pc[p] = "kill_other_remove"
    /\ pidfile' = remove_pid
    /\ log' = Logged(p, <<Call("remove_pid")>>)
    /\ exit(p, 0, pending)
    /\ UNCHANGED <<do_detach, ppid, handler, netup, sent, pid, fail, locked,
                   reported, nsig>>
    /\ UNCHANGED <<crash, observer>>

----------------------------------------------------------------------------
\* A signal arrives from outside (a user's kill, the terminal, a script
\* subprocess ending) at a running daemon: one that is in main_loop.
Raise(p, s) ==
    /\ nsig < MaxSignals
    /\ pc[p] = "main_loop"
    /\ s \notin pending[p]
    /\ s = "SEGV" => Alone(p)
    /\ pending' = [pending EXCEPT ![p] = @ \cup {s}]
    /\ nsig' = nsig + 1
    /\ UNCHANGED <<pidfile, pc, status, do_detach, ppid, handler, frame, netup,
                   log, sent, pid, fail, locked, reported>>
    /\ UNCHANGED <<crash, observer>>

\* The kernel delivers a pending signal that is not blocked: it is dropped (SIG_IGN, and SIGCHLD
\* under SIG_DFL), ends the process (SIG_DFL), or enters the installed handler.
Deliver(p, s) ==
    /\ InMain(p)
    /\ s \in pending[p]
    /\ s \notin sigmask[p]
    /\ LET rest == [pending EXCEPT ![p] = @ \ {s}]
           h == handler[p][s]
       IN  IF h = "SIG_IGN" \/ (h = "SIG_DFL" /\ s = "CHLD")
           THEN /\ pending' = rest
                /\ UNCHANGED <<pc, status, frame>>
           ELSE IF h = "SIG_DFL"
           THEN exit(p, 128, rest)
           ELSE /\ pending' = rest
                /\ frame' = [frame EXCEPT ![p] = [h |-> h, a |-> s]]
                /\ UNCHANGED <<pc, status>>
    /\ UNCHANGED <<pidfile, do_detach, ppid, handler, netup, log, sent, pid,
                   fail, locked, reported, nsig>>
    /\ UNCHANGED <<crash, observer>>

InHandler(p, h) == Alive(p) /\ frame[p].h = h
Return(p) == frame' = [frame EXCEPT ![p] = NoFrame]

sigterm_handler(p) ==
    /\ InHandler(p, "sigterm_handler")
    /\ cleanup_and_exit(p, 0)
    /\ UNCHANGED <<pidfile, do_detach, ppid, handler, pid, fail, locked,
                   reported, nsig>>
    /\ UNCHANGED <<crash, observer>>

\* Mutant of sigquit_handler: it exits without cleaning up.
sigquit_handler_exits(p) ==
    /\ InHandler(p, "sigquit_handler")
    /\ exit(p, 0, pending)
    /\ UNCHANGED <<pidfile, do_detach, ppid, handler, netup, log, sent, pid,
                   fail, locked, reported, nsig>>
    /\ UNCHANGED <<crash, observer>>

sigquit_handler(p) ==
    /\ InHandler(p, "sigquit_handler")
    /\ cleanup_and_exit(p, 0)
    /\ UNCHANGED <<pidfile, do_detach, ppid, handler, pid, fail, locked,
                   reported, nsig>>
    /\ UNCHANGED <<crash, observer>>

sigint_handler(p) ==
    /\ InHandler(p, "sigint_handler")
    /\ cleanup_and_exit(p, 0)
    /\ UNCHANGED <<pidfile, do_detach, ppid, handler, pid, fail, locked,
                   reported, nsig>>
    /\ UNCHANGED <<crash, observer>>

\* close_network_connections(); setup_network_connections(); the latter's
\* result is not looked at.
sighup_handler(p) ==
    /\ InHandler(p, "sighup_handler")
    /\ log' = Logged(p, <<Call("close_network_connections"),
                          Call("setup_network_connections")>>)
    /\ \E ok \in BOOLEAN : netup' = [netup EXCEPT ![p] = ok]
    /\ Return(p)
    /\ UNCHANGED <<pidfile, pc, status, do_detach, ppid, handler, pending,
                   sent, pid, fail, locked, reported, nsig>>
    /\ UNCHANGED <<crash, observer>>

sigusr1_handler(p) ==
    /\ InHandler(p, "sigusr1_handler")
    /\ log' = Logged(p, <<Call("dump_conn_list")>>)
    /\ Return(p)
    /\ UNCHANGED <<pidfile, pc, status, do_detach, ppid, handler, pending,
                   netup, sent, pid, fail, locked, reported, nsig>>
    /\ UNCHANGED <<crash, observer>>

sigusr2_handler(p) ==
    /\ InHandler(p, "sigusr2_handler")
    /\ log' = Logged(p, <<Call("regenerate_keys")>>)
    /\ Return(p)
    /\ UNCHANGED <<pidfile, pc, status, do_detach, ppid, handler, pending,
                   netup, sent, pid, fail, locked, reported, nsig>>
    /\ UNCHANGED <<crash, observer>>

\* Mutant of sighuh: it ends the process after logging.
sighuh_exits(p) ==
    /\ InHandler(p, "sighuh")
    /\ log' = Logged(p, <<<<"syslog", frame[p].a>>>>)
    /\ exit(p, 0, pending)
    /\ UNCHANGED <<pidfile, do_detach, ppid, handler, netup, sent, pid, fail,
                   locked, reported, nsig>>
    /\ UNCHANGED <<crash, observer>>

\* syslog(LOG_NOTICE, "Got unexpected signal (%d) ...", a)
sighuh(p) ==
    /\ InHandler(p, "sighuh")
    /\ log' = Logged(p, <<<<"syslog", frame[p].a>>>>)
    /\ Return(p)
    /\ UNCHANGED <<pidfile, pc, status, do_detach, ppid, handler, pending,
                   netup, sent, pid, fail, locked, reported, nsig>>
    /\ UNCHANGED <<crash, observer>>

parent_exit(p) ==
    /\ InHandler(p, "parent_exit")
    /\ exit(p, 0, pending)
    /\ UNCHANGED <<pidfile, do_detach, ppid, handler, netup, log, sent, pid,
                   fail, locked, reported, nsig>>
    /\ UNCHANGED <<crash, observer>>

----------------------------------------------------------------------------
\* SIGSEGV.  A memory fault is a SIGSEGV the kernel forces on the process: it
\* enters the installed handler, or, when SIGSEGV is blocked, ignored or left
\* at SIG_DFL, ends the process.
Fault(p) ==
    /\ nfault < MaxFaults
    /\ Alive(p) /\ Alone(p) /\ ~do_detach[p] /\ pc[p] = "main_loop"
    /\ frame[p] = NoFrame \/ frame[p].a = "SEGV"
    /\ nfault' = nfault + 1
    /\ IF /\ frame[p] = NoFrame /\ "SEGV" \notin sigmask[p]
          /\ handler[p]["SEGV"] \notin {"SIG_DFL", "SIG_IGN"}
       THEN /\ frame' = [frame EXCEPT ![p] = [h |-> handler[p]["SEGV"], a |-> "SEGV"]]
            /\ faulting' = [faulting EXCEPT ![p] = TRUE]
            /\ UNCHANGED <<pc, status, pending>>
       ELSE /\ exit(p, 128, pending)
            /\ UNCHANGED faulting
    /\ UNCHANGED <<pidfile, do_detach, ppid, handler, netup, log, sent, pid,
                   fail, locked, reported, nsig, sigmask, execs, hpc, observer>>

\* Mutant of execve: the new image starts with no signal blocked.
execve_unblocked(p) ==
    /\ pc' = [pc EXCEPT ![p] = "read_config_file"]
    /\ handler' = [handler EXCEPT ![p] =
                      [s \in Signals |-> IF handler[p][s] = "SIG_IGN"
                                         THEN "SIG_IGN" ELSE "SIG_DFL"]]
    /\ sigmask' = [sigmask EXCEPT ![p] = {}]
    /\ frame' = [frame EXCEPT ![p] = NoFrame]
    /\ hpc' = [hpc EXCEPT ![p] = "entry"]
    /\ faulting' = [faulting EXCEPT ![p] = FALSE]
    /\ execs' = [execs EXCEPT ![p] = @ + 1]
    /\ ppid' = [ppid EXCEPT ![p] = 0]
    /\ netup' = [netup EXCEPT ![p] = FALSE]
    /\ log' = [log EXCEPT ![p] = <<>>]
    /\ pid' = [pid EXCEPT ![p] = 0]
    /\ fail' = [fail EXCEPT ![p] = "none"]
    /\ locked' = [locked EXCEPT ![p] = FALSE]
    /\ reported' = [reported EXCEPT ![p] = 0]

\* execvp(g_argv[0], g_argv) succeeds: the process goes on as a new image of
\* the same program with the same arguments.  Caught signals go back to
\* SIG_DFL, ignored ones stay ignored; the signal mask and the pending signals
\* are kept, so the signal whose handler called execvp stays blocked; the
\* statics start from their initializers.
execve(p) ==
    /\ pc' = [pc EXCEPT ![p] = "read_config_file"]
    /\ handler' = [handler EXCEPT ![p] =
                      [s \in Signals |-> IF handler[p][s] = "SIG_IGN"
                                         THEN "SIG_IGN" ELSE "SIG_DFL"]]
    /\ sigmask' = [sigmask EXCEPT ![p] = @ \cup {frame[p].a}]
    /\ frame' = [frame EXCEPT ![p] = NoFrame]
    /\ hpc' = [hpc EXCEPT ![p] = "entry"]
    /\ faulting' = [faulting EXCEPT ![p] = FALSE]
    /\ execs' = [execs EXCEPT ![p] = @ + 1]
    /\ ppid' = [ppid EXCEPT ![p] = 0]
    /\ netup' = [netup EXCEPT ![p] = FALSE]
    /\ log' = [log EXCEPT ![p] = <<>>]
    /\ pid' = [pid EXCEPT ![p] = 0]
    /\ fail' = [fail EXCEPT ![p] = "none"]
    /\ locked' = [locked EXCEPT ![p] = FALSE]
    /\ reported' = [reported EXCEPT ![p] = 0]

\* Mutant of sigsegv_handler: sigsegv_square is not installed.
sigsegv_handler_unarmed(p) ==
    /\ InHandler(p, "sigsegv_handler") /\ hpc[p] = "entry"
    /\ log' = Logged(p, <<<<"syslog", "Got SEGV signal">>>>)
    /\ hpc' = [hpc EXCEPT ![p] = "close_network_connections"]
    /\ UNCHANGED <<pidfile, pc, status, do_detach, ppid, handler, pending,
                   frame, netup, sent, pid, fail, locked, reported, nsig,
                   sigmask, faulting, execs, nfault, observer>>

\* sigsegv_handler: syslog(...); signal(SIGSEGV, sigsegv_square);
sigsegv_handler(p) ==
    /\ InHandler(p, "sigsegv_handler") /\ hpc[p] = "entry"
    /\ log' = Logged(p, <<<<"syslog", "Got SEGV signal">>,
                          <<"signal", "sigsegv_square">>>>)
    /\ handler' = [handler EXCEPT ![p]["SEGV"] = "sigsegv_square"]
    /\ hpc' = [hpc EXCEPT ![p] = "close_network_connections"]
    /\ UNCHANGED <<pidfile, pc, status, do_detach, ppid, pending, frame,
                   netup, sent, pid, fail, locked, reported, nsig, sigmask,
                   faulting, execs, nfault, observer>>

\* sigsegv_handler: close_network_connections();
sigsegv_handler_close(p) ==
    /\ InHandler(p, "sigsegv_handler")
    /\ hpc[p] = "close_network_connections"
    /\ log' = Logged(p, <<Call("close_network_connections")>>)
    /\ netup' = [netup EXCEPT ![p] = FALSE]
    /\ hpc' = [hpc EXCEPT ![p] = "remove_pid"]
    /\ UNCHANGED <<pidfile, pc, status, do_detach, ppid, handler, pending,
                   frame, sent, pid, fail, locked, reported, nsig, sigmask,
                   faulting, execs, nfault, observer>>

\* Mutant of sigsegv_handler_remove_pid: the PID file is left in place.
sigsegv_handler_keeps_pid(p) ==
    /\ InHandler(p, "sigsegv_handler") /\ hpc[p] = "remove_pid"
    /\ hpc' = [hpc EXCEPT ![p] = "execvp"]
    /\ UNCHANGED <<pidfile, pc, status, do_detach, ppid, handler, pending,
                   frame, netup, log, sent, pid, fail, locked, reported, nsig,
                   sigmask, faulting, execs, nfault, observer>>

\* sigsegv_handler: remove_pid(pidfilename);
sigsegv_handler_remove_pid(p) ==
    /\ InHandler(p, "sigsegv_handler") /\ hpc[p] = "remove_pid"
    /\ log' = Logged(p, <<Call("remove_pid")>>)
    /\ pidfile' = remove_pid
    /\ hpc' = [hpc EXCEPT ![p] = "execvp"]
    /\ UNCHANGED <<pc, status, do_detach, ppid, handler, pending, frame,
                   netup, sent, pid, fail, locked, reported, nsig, sigmask,
                   faulting, execs, nfault, observer>>

\* sigsegv_handler: execvp(g_argv[0], g_argv);  When execvp fails the handler
\* returns: after a kill(2) the process goes on where it was, after a fault
\* the instruction faults again and SIGSEGV, unblocked by the return, enters
\* the handler now installed.
sigsegv_handler_execvp(p) ==
    /\ InHandler(p, "sigsegv_handler") /\ hpc[p] = "execvp"
    /\ \E ok \in BOOLEAN :
        IF ok
        THEN /\ execve(p)
             /\ UNCHANGED <<status, pending>>
        ELSE /\ log' = Logged(p, <<Call("execvp")>>)
             /\ hpc' = [hpc EXCEPT ![p] = "entry"]
             /\ frame' = [frame EXCEPT ![p] =
                             IF faulting[p]
                             THEN [h |-> handler[p]["SEGV"], a |-> "SEGV"]
                             ELSE NoFrame]
             /\ UNCHANGED <<pc, status, pending, handler, sigmask, faulting,
                            execs, ppid, netup, pid, fail, locked, reported>>
    /\ UNCHANGED <<pidfile, do_detach, sent, nsig, nfault, observer>>

\* syslog(LOG_NOTICE, "Got another SEGV signal: not restarting"); exit(0);
sigsegv_square(p) ==
    /\ InHandler(p, "sigsegv_square")
    /\ log' = Logged(p, <<<<"syslog", "Got another SEGV signal: not restarting">>>>)
    /\ exit(p, 0, pending)
    /\ UNCHANGED <<pidfile, do_detach, ppid, handler, netup, sent, pid, fail,
                   locked, reported, nsig, crash, observer>>

----------------------------------------------------------------------------
Next ==
    \/ \E p \in Procs : read_config_file(p)
    \/ \E p \in Procs : setup_signals(p)
    \/ \E p \in Procs : detach_fork(p)
    \/ \E p \in Procs : detach_parent_signal(p)
    \/ \E p \in Procs : detach_parent_sleep(p)
    \/ \E p \in Procs : write_pidfile_check(p)
    \/ \E p \in Procs : write_pidfile_write(p)
    \/ \E p \in Procs : detach_tty(p)
    \/ \E p \in Procs : detach_setsid(p)
    \/ \E p \in Procs : detach_chdir(p)
    \/ \E p \in Procs : security_init(p)
    \/ \E p \in Procs : setup_network_connections(p)
    \/ \E p \in Procs : main_loop(p)
    \/ \E p \in Procs : main_cleanup_and_exit(p)
    \/ \E p \in Procs : kill_other_read_pid(p)
    \/ \E p \in Procs : kill_other_kill(p)
    \/ \E p \in Procs : kill_other_remove(p)
    \/ \E p \in Procs, s \in ExternalSignals : Raise(p, s)
    \/ \E p \in Procs, s \in Signals : Deliver(p, s)
    \/ \E p \in Procs : sigterm_handler(p)
    \/ \E p \in Procs : sigquit_handler(p)
    \/ \E p \in Procs : sigint_handler(p)
    \/ \E p \in Procs : sighup_handler(p)
    \/ \E p \in Procs : sigusr1_handler(p)
    \/ \E p \in Procs : sigusr2_handler(p)
    \/ \E p \in Procs : sighuh(p)
    \/ \E p \in Procs : parent_exit(p)
    \/ \E p \in Procs : Fault(p)
    \/ \E p \in Procs : sigsegv_handler(p)
    \/ \E p \in Procs : sigsegv_handler_close(p)
    \/ \E p \in Procs : sigsegv_handler_remove_pid(p)
    \/ \E p \in Procs : sigsegv_handler_execvp(p)
    \/ \E p \in Procs : sigsegv_square(p)

Spec == Init /\ [][Next]_vars

----------------------------------------------------------------------------
\* The observer: top.c.  A line of the control connection is the sequence of
\* its whitespace-separated tokens.

\* DUMP_TRAFFIC requests the observer sends, at most.
MaxTicks == 2

\* The node names the daemon reports, in strcmp order.
Names == <<"alpha", "bravo">>
NameIndex(n) == CHOOSE k \in 1..Len(Names) : Names[k] = n
\* strcmp(a, b): negative, zero or positive
strcmp(a, b) == NameIndex(a) - NameIndex(b)

\* The tokens sscanf converts with %d and %PRIu64, and their values.
Numerals == <<"0", "1", "2", "3", "4", "5", "6", "7", "8", "13", "18">>
IsNum(tok) == \E k \in 1..Len(Numerals) : Numerals[k] = tok
strtoull(tok) ==
    LET k == CHOOSE j \in 1..Len(Numerals) : Numerals[j] = tok
    IN  IF k <= 9 THEN k - 1 ELSE IF k = 10 THEN 13 ELSE 18

\* sscanf(line, "%d %d %s %PRIu64 %PRIu64 %PRIu64 %PRIu64", ...): the number
\* of fields converted, EOF (-1) for a line with no token.  %s takes any token.
Converts(line, k) == k <= Len(line) /\ (k = 3 \/ IsNum(line[k]))
sscanf(line) ==
    IF Len(line) = 0 THEN -1
    ELSE CHOOSE n \in 0..7 :
            /\ \A k \in 1..n : Converts(line, k)
            /\ n < 7 => ~Converts(line, n + 1)

\* What the daemon answers to DUMP_TRAFFIC (control.c is not part of the
\* sources: section 4.6 of the specification): one line per node, then the
\* line without operands.
Counters == {<<"1", "2", "3", "4">>, <<"5", "6", "7", "8">>}
NodeLine(name, c) == <<"18", "13", name>> \o c
Sentinel == <<"18", "13">>
\* Lines that are neither: too few fields, a field that is no number, no field.
Garbled == {<<"18">>, <<"18", "13", "alpha", "1", "x">>, <<>>}

\* xmalloc_and_zero(sizeof *found); found->name = xstrdup(name);
NewNode(name) ==
    [name |-> name, in_packets |-> 0, in_bytes |-> 0, out_packets |-> 0,
     out_bytes |-> 0, known |-> FALSE]

\* list.h (not part of the sources): the new node goes right after node i /
\* to the end of the list.
list_insert_after(list, i, data) ==
    SubSeq(list, 1, i) \o <<data>> \o SubSeq(list, i + 1, Len(list))
list_insert_tail(list, data) == Append(list, data)

\* update: the search for name from node i on, and the insertion when it is
\* not found.  The result is the list and the position of found in it.
RECURSIVE Lookup(_, _, _)
Lookup(list, name, i) ==
    IF i > Len(list) THEN [list |-> list_insert_tail(list, NewNode(name)),
                           found |-> Len(list) + 1]
    ELSE IF strcmp(name, list[i].name) > 0 THEN Lookup(list, name, i + 1)
    ELSE IF strcmp(name, list[i].name) = 0 THEN [list |-> list, found |-> i]
    ELSE [list |-> list_insert_after(list, i, NewNode(name)), found |-> i + 1]

\* update: one node line.  found->known = true; the counters are stored.
UpdateNode(list, line) ==
    LET r == Lookup(list, line[3], 1)
    IN  [r.list EXCEPT ![r.found] =
            [@ EXCEPT !.known = TRUE,
                      !.in_packets = strtoull(line[4]),
                      !.in_bytes = strtoull(line[5]),
                      !.out_packets = strtoull(line[6]),
                      !.out_bytes = strtoull(line[7])]]

\* Mutant of ResetKnown: the reset clears the packet counter as well.
ResetKnownAndCount(list) ==
    [k \in 1..Len(list) |-> [list[k] EXCEPT !.known = FALSE, !.in_packets = 0]]

\* update: for(i = node_list.head; i; i = i->next) node->known = false;
ResetKnown(list) == [k \in 1..Len(list) |-> [list[k] EXCEPT !.known = FALSE]]

\* int, the type of delay
IntMax == 2147483647

\* What the user may type at the "Change delay" prompt, as <<seconds,
\* thousandths>>: -1 s, 0.05 s, 0.1 s, 2.5 s and 3000000 s.
Inputs == {<<-1, 0>>, <<0, 50>>, <<0, 100>>, <<2, 500>>, <<3000000, 0>>}
\* float input = delay * 1e-3;
InputOf(ms) == <<ms \div 1000, ms % 1000>>
\* if(input < 0.1) input = 0.1;
Clamp(in) == IF in[1] < 0 \/ (in[1] = 0 /\ in[2] < 100) THEN <<0, 100>> ELSE in
\* delay = input * 1e3;  The conversion to int of a value that does not fit
\* is undefined: INT_MIN where the conversion instruction yields the
\* "indefinite" value, INT_MAX where it saturates.
ToDelay(in) ==
    IF in[1] > IntMax \div 1000 THEN {-IntMax - 1, IntMax}
    ELSE {in[1] * 1000 + in[2]}

\* getch(): the keys top looks at, any other key, and ERR when the delay ran out
SortKeys == [n |-> 0, i |-> 2, I |-> 1, o |-> 4, O |-> 3, t |-> 6, T |-> 5]
QuitKeys == {"q", "ESC", "KEY_BREAK"}
Keys == {"s", "c"} \cup DOMAIN SortKeys \cup QuitKeys \cup {"x", "ERR"}

\* Mutant of IsSentinel: no line ends the dump.
IsSentinelNever(n) == FALSE

\* Mutant of IsSentinel: a line of fewer fields ends the dump as well.
IsSentinelOrShort(n) == n <= 2

\* update: the lines, in the order of the switch on n.
IsSentinel(n) == n = 2
IsNodeLine(n) == n = 7

\* update, up to the first recvline: sendline(fd, "%d %d", CONTROL,
\* REQ_DUMP_TRAFFIC), and every node is set to not known.
update_sendline ==
    /\ tpc = "update"
    /\ sends < MaxTicks
    /\ sends' = sends + 1
    /\ req' = IF closed THEN req ELSE req + 1
    /\ node_list' = ResetKnown(node_list)
    /\ seen' = {}
    /\ tpc' = "recvline"
    /\ UNCHANGED <<tstatus, delay, running, sortmode, cumulative, rx, closed,
                   got>>
    /\ UNCHANGED <<daemon, crash>>

\* update: one turn of while(recvline(fd, line, sizeof line)).  recvline
\* (tincctl.c, not part of the sources) waits for the next line and gives
\* false when the connection is closed and nothing is left to read.
update_recvline ==
    /\ tpc = "recvline"
    /\ IF rx # <<>>
       THEN LET line == Head(rx)
                n == sscanf(line)
            IN  /\ rx' = Tail(rx)
                /\ IF IsSentinel(n)
                   THEN /\ tpc' = "getch"
                        /\ got' = got + 1
                        /\ UNCHANGED <<node_list, seen, tstatus>>
                   ELSE IF ~IsNodeLine(n)
                   THEN /\ tpc' = "exited"
                        /\ tstatus' = 1
                        /\ UNCHANGED <<node_list, seen, got>>
                   ELSE /\ node_list' = UpdateNode(node_list, line)
                        /\ seen' = seen \cup {line[3]}
                        /\ UNCHANGED <<tpc, tstatus, got>>
       ELSE /\ closed
            /\ tpc' = "getch"
            /\ UNCHANGED <<rx, node_list, seen, tstatus, got>>
    /\ UNCHANGED <<delay, running, sortmode, cumulative, closed, sends, req>>
    /\ UNCHANGED <<daemon, crash>>

\* top: redraw(); switch(getch()) ...; and the test of while(running), with
\* endwin() and the return when it fails.
top_getch(key) ==
    /\ tpc = "getch"
    /\ IF key = "s"
       THEN /\ \E in \in Inputs \cup {InputOf(delay)} :
                delay' \in ToDelay(Clamp(in))
            /\ UNCHANGED <<cumulative, sortmode, running>>
       ELSE IF key = "c"
       THEN /\ cumulative' = ~cumulative
            /\ UNCHANGED <<delay, sortmode, running>>
       ELSE IF key \in DOMAIN SortKeys
       THEN /\ sortmode' = SortKeys[key]
            /\ UNCHANGED <<delay, cumulative, running>>
       ELSE IF key \in QuitKeys
       THEN /\ running' = FALSE
            /\ UNCHANGED <<delay, cumulative, sortmode>>
       ELSE UNCHANGED <<delay, cumulative, sortmode, running>>
    /\ tpc' = IF running' THEN "update" ELSE "exited"
    /\ tstatus' = IF running' THEN tstatus ELSE 0
    /\ UNCHANGED <<node_list, rx, closed, sends, req, got, seen>>
    /\ UNCHANGED <<daemon, crash>>

\* The daemon's side of the control connection (control.c, not part of the
\* sources): it answers a request with one line for each of some nodes, in
\* any order, and then the sentinel; or, failing, with a line that is no node
\* line in the sentinel's place, or by closing the connection.
RECURSIVE Dumps(_)
Dumps(names) ==
    {<<>>} \cup UNION {{<<NodeLine(n, c)>> \o d : c \in Counters, d \in Dumps(names \ {n})}
                       : n \in names}
NodeNames == {Names[k] : k \in 1..Len(Names)}

dump_traffic(lines, end) ==
    /\ req > 0 /\ ~closed
    /\ req' = req - 1
    /\ rx' = rx \o lines \o end
    /\ UNCHANGED <<tpc, tstatus, node_list, delay, running, sortmode,
                   cumulative, closed, sends, got, seen>>
    /\ UNCHANGED <<daemon, crash>>

control_close ==
    /\ ~closed
    /\ closed' = TRUE
    /\ UNCHANGED <<tpc, tstatus, node_list, delay, running, sortmode,
                   cumulative, rx, sends, req, got, seen>>
    /\ UNCHANGED <<daemon, crash>>

\* The observer next to a daemon that is not looked at: its processes stay
\* as they are at the start.
InitTop ==
    /\ InitCrash
    /\ InitObserver
    /\ pidfile = 0
    /\ pc = [p \in Procs |-> IF p \in Invocations THEN "read_config_file"
                             ELSE IF p = Killer THEN "kill_other"
                             ELSE "unborn"]
    /\ status = [p \in Procs |-> -1]
    /\ do_detach = [p \in Procs |-> p \notin Invocations]
    /\ ppid = [p \in Procs |-> 0]
    /\ handler = [p \in Procs |-> [s \in Signals |-> "SIG_DFL"]]
    /\ pending = [p \in Procs |-> {}]
    /\ frame = [p \in Procs |-> NoFrame]
    /\ netup = [p \in Procs |-> FALSE]
    /\ log = [p \in Procs |-> <<>>]
    /\ sent = [p \in Procs |-> {}]
    /\ pid = [p \in Procs |-> 0]
    /\ fail = [p \in Procs |-> "none"]
    /\ locked = [p \in Procs |-> FALSE]
    /\ reported = [p \in Procs |-> 0]
    /\ nsig = 0

NextTop ==
    \/ update_sendline
    \/ update_recvline
    \/ \E key \in Keys : top_getch(key)
    \/ \E lines \in Dumps(NodeNames), end \in {<<Sentinel>>} \cup {<<l>> : l \in Garbled} :
            dump_traffic(lines, end)
    \/ control_close

SpecTop == InitTop /\ [][NextTop]_vars

----------------------------------------------------------------------------
\* What the claims speak of.
Removed == \E p \in Procs : Did(p, "remove_pid")
StaleMessage == <<"fprintf", "Removing stale lock file.">>
PrintedStale(p) == \E k \in 1..Len(log[p]) : log[p][k] = StaleMessage
\* p, in the main flow, takes the step at position at
Steps(p, at) == InMain(p) /\ pc[p] = at /\ pc'[p] # at
\* the kernel delivers s to p
Delivered(p, s) == InMain(p) /\ s \in pending[p] /\ s \notin pending'[p]
\* p leaves the handler h
Leaves(p, h) == InHandler(p, h) /\ frame'[p] # frame[p]
\* the calls p makes in this step
NewCalls(p) == SubSeq(log'[p], Len(log[p]) + 1, Len(log'[p]))

\* C1: as long as nobody has removed the PID file, at most one process has
\* returned success from write_pidfile, however two starting daemons interleave
\* their check_pid and write_pid.
UniqueLock ==
    ~Removed => Cardinality({p \in Procs : locked[p]}) <= 1

\* C1 witness: two daemons both passed check_pid; one, alive, holds the file, the
\* other then found the file there and lost the exclusive create.
UniqueLockRace ==
    \E p, q \in Procs :
        /\ p # q /\ Alive(p) /\ locked[p] /\ pidfile = p
        /\ fail[q] = "write_pid" /\ pid[q] = 0 /\ Did(q, "write_pid")
        /\ ~Removed

\* C2: when check_pid finds the PID file naming a live process, write_pidfile
\* fails as "already running": that PID is reported, the PID file keeps its
\* content, and the process ends without having called security_init,
\* setup_network_connections or main_loop.
AlreadyRunning ==
    [][\A p \in Procs :
        /\ (Steps(p, "write_pidfile") /\ pidfile # 0 /\ Alive(pidfile))
            => /\ reported'[p] = pidfile
               /\ fail'[p] = "already_running"
               /\ pidfile' = pidfile
               /\ ~locked'[p]
               /\ pc'[p] = "exited"
        /\ fail'[p] = "already_running"
            => /\ pc'[p] = "exited"
               /\ ~Did(p, "security_init")'
               /\ ~Did(p, "setup_network_connections")'
               /\ ~Did(p, "main_loop")'
      ]_vars

\* C2 witness: a daemon was turned away by a PID file naming a live process.
AlreadyRunningSeen ==
    \E p \in Procs :
        /\ fail[p] = "already_running" /\ pc[p] = "exited"
        /\ reported[p] = pidfile /\ Alive(pidfile)

\* C3 (as claimed): a process whose initialization failed has exit status 1.
InitFailureExitsOne ==
    \A p \in Procs : (fail[p] # "none" /\ pc[p] = "exited") => status[p] = 1

\* C4 (as claimed): once a daemon that wrote the PID file and initialized
\* has ended through cleanup_and_exit (from the SIGTERM, SIGQUIT or SIGINT
\* handler, or after main_loop returned), the PID file it wrote is absent;
\* stated for the runs in which tincd -k has not been started.
PidFileCleanliness ==
    \A p \in Procs :
        (/\ pc[p] = "exited" /\ locked[p] /\ fail[p] = "none"
         /\ Did(p, "closelog") /\ pc[Killer] = "kill_other")
            => pidfile # p

\* C5 (as claimed): the supervisor parent exits with status 0 only if its
\* child sent it SIGTERM.
ParentSuccessOnlyOnChildSignal ==
    \A i \in Invocations :
        (pc[Child(i)] # "unborn" /\ pc[i] = "exited" /\ status[i] = 0)
            => i \in sent[Child(i)]

\* C6: kill_other returns 1 with no signal sent and nothing removed when it
\* reads no PID; when it reads one it sends SIGTERM to that PID only, says
\* "Removing stale lock file." exactly when that process is gone, and returns
\* 0 with the PID file absent.
KillOtherOutcome ==
    [][\A p \in Procs :
        /\ Steps(p, "kill_other")
            => IF pidfile = 0
               THEN /\ pc'[p] = "exited" /\ status'[p] = 1
                    /\ sent'[p] = {} /\ pending' = pending
                    /\ pidfile' = pidfile /\ ~Did(p, "remove_pid")'
               ELSE pid'[p] = pidfile /\ pc'[p] = "kill_other_kill"
        /\ Steps(p, "kill_other_kill")
            => /\ sent'[p] = {pid[p]}
               /\ \A q \in Procs \ {pid[p]} : pending'[q] = pending[q]
               /\ IF Alive(pid[p])
                  THEN "TERM" \in pending'[pid[p]] /\ ~PrintedStale(p)'
                  ELSE pending' = pending /\ PrintedStale(p)'
        /\ Steps(p, "kill_other_remove")
            => /\ pidfile' = 0
               /\ pc'[p] = "exited" /\ status'[p] = 0
               /\ sent'[p] = {pid[p]}
      ]_vars

\* C6 witness: kill_other found a stale lock, removed it and returned 0.
KillOtherStale ==
    /\ pc[Killer] = "exited" /\ status[Killer] = 0
    /\ PrintedStale(Killer) /\ pidfile = 0

\* C7: SIGTERM, SIGQUIT and SIGINT delivered to a running daemon enter their
\* handlers, and the handler closes the network connections and then ends the
\* process with status 0.
GracefulShutdown ==
    [][\A p \in Procs :
        /\ \A s \in {"TERM", "QUIT", "INT"} :
            (Delivered(p, s) /\ pc[p] = "main_loop")
                => frame'[p] = [h |-> SignalTable[s], a |-> s]
        /\ \A h \in {"sigterm_handler", "sigquit_handler", "sigint_handler"} :
            (Leaves(p, h) /\ pc[p] = "main_loop")
                => /\ pc'[p] = "exited" /\ status'[p] = 0
                   /\ ~netup'[p]
                   /\ Len(NewCalls(p)) > 0
                   /\ NewCalls(p)[1] = Call("close_network_connections")
      ]_vars

\* C7 witness: a running daemon that had set its connections up was ended by
\* a SIGTERM, SIGQUIT or SIGINT raised at it.
GracefulShutdownSeen ==
    \E p \in Procs :
        /\ pc[p] = "exited" /\ status[p] = 0 /\ Did(p, "main_loop") = FALSE
        /\ Did(p, "setup_network_connections") /\ Did(p, "closelog")
        /\ nsig > 0 /\ pc[Killer] = "kill_other"

\* C8 (as claimed): sighup_handler closes the connections, reparses the
\* configuration and sets the connections up again, in that order, and the
\* daemon keeps running.
ReloadOnHup ==
    [][\A p \in Procs :
        Leaves(p, "sighup_handler")
            => /\ NewCalls(p) = <<Call("close_network_connections"),
                                  Call("read_config_file"),
                                  Call("setup_network_connections")>>
               /\ pc'[p] = pc[p] /\ status'[p] = -1
      ]_vars

\* C9 (as claimed): SIGCHLD delivered to the running daemon leaves it running.
ChldKeepsRunning ==
    [][\A p \in Procs :
        (pc[p] = "main_loop" /\ Alive(p) /\ frame[p].a = "CHLD"
            /\ frame'[p] # frame[p])
            => pc'[p] = "main_loop" /\ status'[p] = -1
      ]_vars

SegvStep(p, at) ==
    InHandler(p, "sigsegv_handler") /\ hpc[p] = at /\ hpc'[p] # at
\* the recovery calls of sigsegv_handler
RecoverySteps == {"close_network_connections", "remove_pid", "execvp"}
\* p makes one of the recovery calls in this step
Recovers(p) ==
    \/ \E k \in 1..Len(NewCalls(p)) : NewCalls(p)[k][1] \in RecoverySteps
    \/ execs'[p] # execs[p]

\* C11: sigsegv_handler first installs sigsegv_square, making no recovery call
\* in that step, and then closes the network connections, removes the PID
\* file and calls execvp, in this order; every recovery step finds
\* sigsegv_square already installed for SIGSEGV.
SegvRecoveryOrder ==
    [][\A p \in Procs :
        /\ SegvStep(p, "entry")
            => /\ handler'[p]["SEGV"] = "sigsegv_square"
               /\ ~Recovers(p)
               /\ netup'[p] = netup[p] /\ pidfile' = pidfile
               /\ hpc'[p] = "close_network_connections"
        /\ SegvStep(p, "close_network_connections")
            => /\ handler[p]["SEGV"] = "sigsegv_square"
               /\ NewCalls(p) = <<Call("close_network_connections")>>
               /\ ~netup'[p] /\ pidfile' = pidfile
               /\ hpc'[p] = "remove_pid"
        /\ SegvStep(p, "remove_pid")
            => /\ handler[p]["SEGV"] = "sigsegv_square"
               /\ NewCalls(p) = <<Call("remove_pid")>>
               /\ pidfile' = 0
               /\ hpc'[p] = "execvp"
        /\ SegvStep(p, "execvp")
            => /\ handler[p]["SEGV"] = "sigsegv_square"
               /\ ~netup[p]
               /\ \/ execs'[p] = execs[p] + 1
                  \/ NewCalls(p) = <<Call("execvp")>>
        /\ (InHandler(p, "sigsegv_handler") /\ Recovers(p))
            => handler[p]["SEGV"] = "sigsegv_square"
      ]_vars

\* C11 witness: a daemon that held the PID file is inside sigsegv_handler,
\* about to call execvp: sigsegv_square is installed, its connections are
\* closed and the PID file is gone.
SegvRecoverySeen ==
    \E p \in Procs :
        /\ InHandler(p, "sigsegv_handler") /\ hpc[p] = "execvp"
        /\ handler[p]["SEGV"] = "sigsegv_square"
        /\ locked[p] /\ ~netup[p] /\ pidfile = 0
        /\ Did(p, "setup_network_connections")

\* C12 (as claimed): a process that leaves sigsegv_handler has been replaced
\* by execvp or has ended, or it is in sigsegv_square because SIGSEGV came
\* again; and sigsegv_square ends the process without a recovery call.
SegvNoReturn ==
    [][\A p \in Procs :
        /\ (InHandler(p, "sigsegv_handler") /\ frame'[p] # frame[p])
            => \/ execs'[p] = execs[p] + 1
               \/ pc'[p] = "exited"
               \/ frame'[p].h = "sigsegv_square"
        /\ (InHandler(p, "sigsegv_square") /\ frame'[p] # frame[p])
            => pc'[p] = "exited" /\ ~Recovers(p)
      ]_vars

\* C13 (as claimed): when update has returned, the observer's node list is in
\* ascending order of the node names.
NodeListSorted ==
    tpc # "recvline"
        => \A i \in 1..(Len(node_list) - 1) :
              strcmp(node_list[i].name, node_list[i + 1].name) <= 0

\* C14 (as claimed): when update has read a dump up to its sentinel, an entry
\* of the list is known exactly when its name was in that dump.
KnownIffInDump ==
    (tpc = "getch" /\ got = sends)
        => \A k \in 1..Len(node_list) :
              node_list[k].known <=> node_list[k].name \in seen

DelayAtLeastTenth == delay >= 100

\* The calls that touch the network connections.
ConnectionCalls ==
    {"close_network_connections", "setup_network_connections", "dump_conn_list"}

\* C17 (as claimed): a signal handler that ends its run has not closed, set
\* up or dumped the connections, and has not ended the process.
HandlersOnlyFlag ==
    [][\A p \in Procs :
        (Alive(p) /\ frame[p] # NoFrame /\ frame'[p] # frame[p]
            /\ nfault' = nfault)
            => /\ pc'[p] # "exited"
               /\ netup'[p] = netup[p]
               /\ \A k \in 1..Len(NewCalls(p)) :
                     NewCalls(p)[k][1] \notin ConnectionCalls
      ]_vars

ReexecOnce ==
    [][\A p \in Procs :
        /\ execs'[p] <= 1
        /\ execs[p] > 0 => frame'[p].h # "sigsegv_handler"
        /\ (execs[p] > 0 /\ Alive(p) /\ Alone(p) /\ nfault' # nfault)
            => pc'[p] = "exited" /\ status'[p] = 128
      ]_vars

\* C19 witness: a daemon faulted, was started again by execvp, reached
\* main_loop, faulted again and was ended by the second fault.
ReexecOnceSeen ==
    \E p \in Procs :
        /\ execs[p] = 1 /\ pc[p] = "exited" /\ status[p] = 128
        /\ Did(p, "setup_network_connections") /\ nfault = 2

\* C20 (as claimed): when update has returned, no two entries of the
\* observer's list have the same name.
OneEntryPerName ==
    tpc # "recvline"
        => \A i, j \in 1..Len(node_list) :
              i # j => node_list[i].name # node_list[j].name

\* The entries of list whose name is not in names, in the list's order.
Others(list, names) == SelectSeq(list, LAMBDA e : e.name \notin names)
\* An entry with its known flag left out of account.
Unmarked(list) == [k \in 1..Len(list) |-> [list[k] EXCEPT !.known = FALSE]]
\* The name in the line update is about to take in as a node line.
LineNames ==
    IF tpc = "recvline" /\ rx # <<>> /\ IsNodeLine(sscanf(Head(rx)))
    THEN {Head(rx)[3]} ELSE {}

\* C21: no step of update removes an entry, and an entry whose name is not
\* the one of the line being read keeps its name and its four counters, in
\* the same place among such entries: the start of update changes nothing
\* but known flags, which it sets to false, and the reading of a line leaves
\* every entry of another name as it is, known flag included.
CountersKept ==
    [][/\ Len(node_list') >= Len(node_list)
       /\ Others(node_list', LineNames) = Others(node_list, LineNames)
            \/ /\ tpc = "update"
               /\ Len(node_list') = Len(node_list)
               /\ node_list' = Unmarked(node_list)
      ]_vars

\* C21 witness: a second dump was read to its sentinel and an entry whose
\* name was not in it is in the list, not known, with the counters of the
\* first dump.
CountersKeptSeen ==
    /\ got = 2 /\ tpc = "getch"
    /\ \E k \in 1..Len(node_list) :
          /\ node_list[k].name \notin seen
          /\ ~node_list[k].known
          /\ node_list[k].in_packets = 5 /\ node_list[k].out_bytes = 8

\* p calls kill(ppid, SIGTERM) in this step.
SendsTerm(p) ==
    \E k \in 1..Len(NewCalls(p)) : NewCalls(p)[k] = <<"kill", "SIGTERM">>

\* C22 (as claimed): a daemon that calls kill(ppid, SIGTERM) is a detached
\* child whose ppid is its supervisor parent, and that parent is alive; and
\* a cleanup_and_exit(c) closes the connections once, sends once and ends
\* the process with status c: 1 from main, 0 from a handler.
TermOnlyToLiveParent ==
    [][\A p \in Invocations \cup Children :
        (Alive(p) /\ SendsTerm(p))
            => /\ p \in Children /\ ppid[p] = Parent(p) /\ Alive(ppid[p])
               /\ pc'[p] = "exited"
                    => /\ Len(NewCalls(p)) = 3
                       /\ status'[p] = IF InMain(p) THEN 1 ELSE 0
      ]_vars

\* C23: the image started by the execvp of sigsegv_handler starts with no
\* PID file holding its own PID; its check_pid finds no running daemon, so
\* write_pidfile goes on to write_pid and nothing is reported as already
\* running; and when its write_pid succeeds the PID file holds its PID.
ReexecPassesCheck ==
    [][\A p \in Invocations :
        /\ execs'[p] > execs[p] => pidfile' # p /\ ~locked'[p]
        /\ (execs[p] > 0 /\ Steps(p, "write_pidfile"))
            => /\ pc'[p] = "write_pid" /\ pid'[p] = 0
               /\ fail'[p] # "already_running" /\ reported'[p] = 0
        /\ (execs[p] > 0 /\ Steps(p, "write_pid") /\ pc'[p] # "exited")
            => locked'[p] /\ pidfile' = p
      ]_vars

\* C23 witness: a daemon that had written the PID file was started again by
\* the execvp of sigsegv_handler, has written the PID file again and is in
\* its main loop.
ReexecPassesCheckSeen ==
    \E p \in Invocations :
        /\ execs[p] = 1 /\ Alive(p) /\ pc[p] = "main_loop"
        /\ locked[p] /\ pidfile = p /\ Did(p, "write_pid")

\* update takes a line from the connection in this step.
ReadsLine == tpc = "recvline" /\ rx # <<>> /\ rx' = Tail(rx)

\* C24: when update reads a line of which sscanf converts neither 2 nor 7
\* fields, the observer ends with status 1 and the list is as it was; a line
\* of 2 fields makes update return with the list as it was; a line of 7
\* fields leaves update reading; and while the connection is open update
\* returns only on reading a line of 2 fields.
MalformedLineExits ==
    [][/\ ReadsLine =>
            LET n == sscanf(Head(rx)) IN
            /\ n \notin {2, 7}
                => /\ tpc' = "exited" /\ tstatus' = 1
                   /\ node_list' = node_list /\ got' = got
            /\ n = 2 => tpc' = "getch" /\ node_list' = node_list
            /\ n = 7 => tpc' = "recvline" /\ tstatus' = tstatus
       /\ (tpc = "recvline" /\ tpc' = "getch" /\ ~closed)
            => ReadsLine /\ sscanf(Head(rx)) = 2
       /\ (tpc = "recvline" /\ tstatus' = 1) => ReadsLine
      ]_vars

\* C24 witness: the observer has ended with status 1 in the middle of a
\* dump, after a node line of that dump was taken in.
MalformedLineExitsSeen ==
    /\ tpc = "exited" /\ tstatus = 1
    /\ seen # {} /\ got < sends
    /\ \E k \in 1..Len(node_list) : node_list[k].known

====
